---- MODULE Spec2Model ----
(***************************************************************************)
(* Model of poetry_plugin_export.exporter.Exporter: the fluent export      *)
(* configuration, the format dispatch of export() and the generic text     *)
(* generator _export_generic_txt.                                          *)
(*                                                                         *)
(* Python strings are modelled as sequences of code points, so that        *)
(* sorted(), split(), strip(), rstrip() and lower() are computed the way   *)
(* Python computes them.  Format names, source kinds and control positions *)
(* are only ever compared for equality and stay TLA+ strings.              *)
(*                                                                         *)
(* The graph walker (poetry_plugin_export.walker) is a collaborator of the *)
(* exporter: what it yields is chosen nondeterministically, one pair per   *)
(* loop iteration, each pair of the locked graph at most once.  The        *)
(* setters with_extras and only_groups only parameterise the walker and    *)
(* are covered by that choice.                                             *)
(***************************************************************************)
EXTENDS Integers, Sequences, FiniteSets, TLC

\* Largest number of (dependency, package) pairs the walker yields in a call.
MaxWalk == 3

-----------------------------------------------------------------------------
(* Python str primitives                                                   *)

\* a < b for Python str: code point order, a proper prefix sorts first.
StrLess(a, b) ==
    LET n == IF Len(a) < Len(b) THEN Len(a) ELSE Len(b)
        \* the first position at which they differ, n + 1 when there is none
        d == CHOOSE k \in 1..(n + 1) :
                /\ k = n + 1 \/ a[k] # b[k]
                /\ \A j \in 1..(k - 1) : a[j] = b[j]
    IN  IF d = n + 1 THEN Len(a) < Len(b) ELSE a[d] < b[d]

\* s.find(p) + 1: the first position at which p occurs in s, 0 when absent.
Find(s, p) ==
    LET hits == {k \in 1..(Len(s) - Len(p) + 1) :
                    p = <<>> \/ (s[k] = p[1] /\ SubSeq(s, k, k + Len(p) - 1) = p)}
    IN  IF hits = {} THEN 0 ELSE CHOOSE k \in hits : \A j \in hits : k <= j

\* p in s
Contains(s, p) == Find(s, p) # 0

\* s.split(sep): every piece between occurrences of sep.
RECURSIVE Split(_, _)
Split(s, sep) ==
    LET k == Find(s, sep)
    IN  IF k = 0 THEN <<s>>
        ELSE <<SubSeq(s, 1, k - 1)>>
             \o Split(SubSeq(s, k + Len(sep), Len(s)), sep)

\* s.split(sep, 1): cut at the first occurrence only.
Split1(s, sep) ==
    LET k == Find(s, sep)
    IN  IF k = 0 THEN <<s>>
        ELSE <<SubSeq(s, 1, k - 1), SubSeq(s, k + Len(sep), Len(s))>>

\* Code points str.strip() removes: tab, LF, VT, FF, CR, space.
Whitespace == {9, 10, 11, 12, 13, 32}

\* s.lstrip()
RECURSIVE LStrip(_)
LStrip(s) ==
    IF s # <<>> /\ s[1] \in Whitespace THEN LStrip(Tail(s)) ELSE s

\* s with every trailing character of the set chars removed.
RECURSIVE RStripSet(_, _)
RStripSet(s, chars) ==
    IF s # <<>> /\ s[Len(s)] \in chars
    THEN RStripSet(SubSeq(s, 1, Len(s) - 1), chars)
    ELSE s

\* s.strip()
Strip(s) == RStripSet(LStrip(s), Whitespace)

\* s.rstrip(chars): every trailing character that occurs in chars removed.
RStrip(s, chars) == RStripSet(s, {chars[k] : k \in DOMAIN chars})

\* s.lower() on ASCII
Lower(s) == [k \in 1..Len(s) |-> IF s[k] \in 65..90 THEN s[k] + 32 ELSE s[k]]

\* sep.join(parts)
RECURSIVE Join(_, _)
Join(sep, parts) ==
    IF parts = <<>> THEN <<>>
    ELSE IF Len(parts) = 1 THEN parts[1]
    ELSE parts[1] \o sep \o Join(sep, Tail(parts))

\* One step of the sort: x placed after every element that is not greater.
RECURSIVE InsertSorted(_, _)
InsertSorted(s, x) ==
    IF s = <<>> THEN <<x>>
    ELSE IF StrLess(x, s[1]) THEN <<x>> \o s
    ELSE <<s[1]>> \o InsertSorted(Tail(s), x)

\* Insertion sort of s into the sorted acc.
RECURSIVE SortFrom(_, _)
SortFrom(acc, s) ==
    IF s = <<>> THEN acc ELSE SortFrom(InsertSorted(acc, s[1]), Tail(s))

\* The collection left in the order it was iterated in, unsorted.
sorted_unsorted(s) == s

\* sorted(s) / list.sort(): ascending by StrLess, duplicates kept.
sorted(s) == SortFrom(<<>>, s)

-----------------------------------------------------------------------------
(* Class constants and format dispatch                                     *)

FORMAT_CONSTRAINTS_TXT == "constraints.txt"
FORMAT_REQUIREMENTS_TXT == "requirements.txt"

ALLOWED_HASH_ALGORITHMS == {<<115, 104, 97, 50, 53, 54>>, <<115, 104, 97, 51, 56, 52>>, <<115, 104, 97, 53, 49, 50>>}

\* EXPORT_METHODS: format name -> bound policy flags of the partialmethod.
EXPORT_METHODS ==
    [f \in {FORMAT_CONSTRAINTS_TXT, FORMAT_REQUIREMENTS_TXT} |->
        IF f = FORMAT_CONSTRAINTS_TXT
        THEN [with_extras |-> FALSE, allow_editable |-> FALSE]
        ELSE [with_extras |-> TRUE, allow_editable |-> TRUE]]

\* fmt in cls.EXPORT_METHODS
is_format_supported(f) == f \in DOMAIN EXPORT_METHODS

\* Format names a caller may pass to export().
Formats ==
    {FORMAT_CONSTRAINTS_TXT, FORMAT_REQUIREMENTS_TXT,
     "Requirements.txt", "pylock.toml", ""}

-----------------------------------------------------------------------------
(* What the walker can yield and the repository pool                       *)

\* The (dependency, package) pairs of the locked graph.  requirement is the
\* value of dependency.to_pep_508(with_extras=False, resolved=True); files
\* holds each file's "hash" string, "algorithm:digest" or a bare digest.
PairTable == <<
    \* 1: foo 1.0 from PyPI, three files
    [name |-> <<102, 111, 111>>, features |-> <<>>, version |-> <<49, 46, 48>>,
     kind |-> "registry", develop |-> FALSE,
     dep_source_url |-> <<>>, source_url |-> <<>>,
     requirement |-> <<102, 111, 111, 61, 61, 49, 46, 48>>,
     files |-> <<<<115, 104, 97, 53, 49, 50, 58, 99, 100>>, <<97, 98>>, <<109, 100, 53, 58, 101, 102>>>>],
    \* 2: bar 2.0 from repository b, reached with marker os_name == "nt"
    [name |-> <<98, 97, 114>>, features |-> <<>>, version |-> <<50, 46, 48>>,
     kind |-> "registry", develop |-> FALSE,
     dep_source_url |-> <<>>, source_url |-> <<104, 116, 116, 112, 115, 58, 47, 47, 98, 46, 105, 111, 47, 115, 47>>,
     requirement |-> <<98, 97, 114, 61, 61, 50, 46, 48, 32, 59, 32, 111, 115, 95, 110, 97, 109, 101, 32, 61, 61, 32, 34, 110, 116, 34>>,
     files |-> <<<<115, 104, 97, 50, 53, 54, 58, 101, 102>>>>],
    \* 3: bar 2.0 again, over another edge with the same marker
    [name |-> <<98, 97, 114>>, features |-> <<>>, version |-> <<50, 46, 48>>,
     kind |-> "registry", develop |-> FALSE,
     dep_source_url |-> <<>>, source_url |-> <<104, 116, 116, 112, 115, 58, 47, 47, 98, 46, 105, 111, 47, 115, 47>>,
     requirement |-> <<98, 97, 114, 62, 61, 50, 59, 111, 115, 95, 110, 97, 109, 101, 32, 61, 61, 32, 34, 110, 116, 34, 32>>,
     files |-> <<<<115, 104, 97, 50, 53, 54, 58, 101, 102>>>>],
    \* 4: bar 2.0 again, over an edge with another marker
    [name |-> <<98, 97, 114>>, features |-> <<>>, version |-> <<50, 46, 48>>,
     kind |-> "registry", develop |-> FALSE,
     dep_source_url |-> <<>>, source_url |-> <<104, 116, 116, 112, 115, 58, 47, 47, 98, 46, 105, 111, 47, 115, 47>>,
     requirement |-> <<98, 97, 114, 61, 61, 50, 46, 48, 32, 59, 32, 111, 115, 95, 110, 97, 109, 101, 32, 33, 61, 32, 34, 110, 116, 34>>,
     files |-> <<<<115, 104, 97, 50, 53, 54, 58, 101, 102>>>>],
    \* 5: baz, a directory dependency locked in develop mode, with a marker
    [name |-> <<98, 97, 122>>, features |-> <<>>, version |-> <<48, 46, 49>>,
     kind |-> "directory", develop |-> TRUE,
     dep_source_url |-> <<47, 112, 47, 98, 97, 122>>, source_url |-> <<47, 112, 47, 98, 97, 122>>,
     requirement |-> <<98, 97, 122, 32, 64, 32, 102, 105, 108, 101, 58, 47, 47, 47, 112, 47, 98, 97, 122, 32, 59, 32, 111, 115, 95, 110, 97, 109, 101, 32, 61, 61, 32, 34, 110, 116, 34>>,
     files |-> <<>>],
    \* 6: vv, a VCS dependency locked in develop mode, with a marker
    [name |-> <<118, 118>>, features |-> <<>>, version |-> <<48, 46, 51>>,
     kind |-> "vcs", develop |-> TRUE,
     dep_source_url |-> <<104, 116, 116, 112, 115, 58, 47, 47, 103, 46, 105, 111, 47, 118>>, source_url |-> <<104, 116, 116, 112, 115, 58, 47, 47, 103, 46, 105, 111, 47, 118>>,
     requirement |-> <<118, 118, 32, 64, 32, 103, 105, 116, 43, 104, 116, 116, 112, 115, 58, 47, 47, 103, 46, 105, 111, 47, 118, 64, 97, 98, 99, 32, 59, 32, 111, 115, 95, 110, 97, 109, 101, 32, 61, 61, 32, 34, 110, 116, 34>>,
     files |-> <<>>],
    \* 7: zed[x] 3.0 from repository a (plain http)
    [name |-> <<122, 101, 100>>, features |-> <<120>>, version |-> <<51, 46, 48>>,
     kind |-> "registry", develop |-> FALSE,
     dep_source_url |-> <<>>, source_url |-> <<104, 116, 116, 112, 58, 47, 47, 97, 46, 105, 111, 47, 115>>,
     requirement |-> <<122, 101, 100, 61, 61, 51, 46, 48>>,
     files |-> <<>>]
>>

PairIds == 1..Len(PairTable)

\* Repositories: name, url, authenticated_url; http is
\* isinstance(repository, HTTPRepository).
RepoA ==
    [name |-> <<97>>, http |-> TRUE,
     url |-> <<104, 116, 116, 112, 58, 47, 47, 97, 46, 105, 111, 47, 115>>, authenticated_url |-> <<104, 116, 116, 112, 58, 47, 47, 117, 58, 112, 64, 97, 46, 105, 111, 47, 115>>]

RepoB ==
    [name |-> <<98>>, http |-> TRUE,
     url |-> <<104, 116, 116, 112, 115, 58, 47, 47, 98, 46, 105, 111, 47, 115>>, authenticated_url |-> <<104, 116, 116, 112, 115, 58, 47, 47, 117, 58, 112, 64, 98, 46, 105, 111, 47, 115>>]

RepoPyPI ==
    [name |-> <<80, 121, 80, 73>>, http |-> TRUE,
     url |-> <<104, 116, 116, 112, 115, 58, 47, 47, 112, 121, 112, 105, 46, 111, 114, 103, 47, 115, 105, 109, 112, 108, 101>>,
     authenticated_url |-> <<104, 116, 116, 112, 115, 58, 47, 47, 112, 121, 112, 105, 46, 111, 114, 103, 47, 115, 105, 109, 112, 108, 101>>]

RepoLocal ==
    [name |-> <<108, 111, 99, 97, 108>>, http |-> FALSE,
     url |-> <<>>, authenticated_url |-> <<>>]

\* pool.all_repositories, highest priority first.
Pools ==
    {<<RepoA, RepoB>>, <<RepoA, RepoPyPI>>, <<RepoLocal, RepoB, RepoA>>}

-----------------------------------------------------------------------------
(* _export_generic_txt, per pair                                           *)

\* DependencyPackage.without_features(): the base identity of the package.
without_features(dp) == [dp EXCEPT !.features = <<>>]

\* package.complete_name: the name, with its features in brackets if any.
complete_name(package) ==
    IF package.features = <<>> THEN package.name
    ELSE package.name \o <<91>> \o package.features \o <<93>>

\* path_to_url for an absolute POSIX path.
path_to_url(path) == <<102, 105, 108, 101, 58, 47, 47>> \o path

is_direct_local_reference(dp) == dp.kind \in {"file", "directory"}

is_direct_remote_reference(dp) == dp.kind \in {"vcs", "url"}

\* Skipping every editable pair, whatever the format allows.
SkipEditable_always(dp, allow_editable) == dp.develop

\* The pair is skipped with a warning.
SkipEditable(dp, allow_editable) == dp.develop /\ ~allow_editable

\* The line before the marker and the hashes are appended.
BaseLine(dp) ==
    IF is_direct_remote_reference(dp) THEN dp.requirement
    ELSE IF is_direct_local_reference(dp)
    THEN IF dp.develop
         THEN <<45, 101, 32>> \o path_to_url(dp.dep_source_url)
         ELSE complete_name(dp) \o <<32, 64, 32>> \o path_to_url(dp.dep_source_url)
    ELSE complete_name(dp) \o <<61, 61>> \o dp.version

\* The marker clause appended whatever the marker setting.
MarkerSuffix_ungated(dp, with_markers) ==
    IF ~is_direct_remote_reference(dp) /\ Contains(dp.requirement, <<59>>)
    THEN LET markers == Strip(Split1(dp.requirement, <<59>>)[2])
         IN  IF markers # <<>> THEN <<32, 59, 32>> \o markers ELSE <<>>
    ELSE <<>>

\* The marker clause appended to the line.
MarkerSuffix(dp, with_markers) ==
    IF ~is_direct_remote_reference(dp) /\ Contains(dp.requirement, <<59>>)
    THEN LET markers == Strip(Split1(dp.requirement, <<59>>)[2])
         IN  IF markers # <<>> /\ with_markers
             THEN <<32, 59, 32>> \o markers
             ELSE <<>>
    ELSE <<>>

\* Recording the source URL of local references too.
RecordsIndex_nonremote(dp) ==
    ~is_direct_remote_reference(dp) /\ dp.source_url # <<>>

\* The pair's source URL is recorded as an index.
RecordsIndex(dp) ==
    /\ ~is_direct_remote_reference(dp)
    /\ ~is_direct_local_reference(dp)
    /\ dp.source_url # <<>>

\* The URL recorded for the pair.
IndexUrl(dp) == RStrip(dp.source_url, <<47>>)

\* algorithm, h = h.split(":") cannot unpack anything but two pieces.
HashUnpackFails(h) == Contains(h, <<58>>) /\ Len(Split(h, <<58>>)) # 2

\* Keeping a hash whatever its algorithm.
HashEntry_unfiltered(h) ==
    IF Contains(h, <<58>>) THEN <<h>> ELSE <<<<115, 104, 97, 50, 53, 54>> \o <<58>> \o h>>

\* What one file's hash string appends to the list: nothing or one entry.
HashEntry(h) ==
    IF Contains(h, <<58>>)
    THEN LET parts == Split(h, <<58>>)
         IN  IF parts[1] \notin ALLOWED_HASH_ALGORITHMS THEN <<>>
             ELSE <<parts[1] \o <<58>> \o parts[2]>>
    ELSE <<<<115, 104, 97, 50, 53, 54>> \o <<58>> \o h>>

\* The list `hashes` after the loop over package.files.
RECURSIVE CollectHashes(_)
CollectHashes(files) ==
    IF files = <<>> THEN <<>>
    ELSE HashEntry(files[1]) \o CollectHashes(Tail(files))

\* One continuation suffix per hash.
RECURSIVE HashLines(_)
HashLines(hashes) ==
    IF hashes = <<>> THEN <<>>
    ELSE <<32, 92, 10, 32, 32, 32, 32, 45, 45, 104, 97, 115, 104, 61>> \o hashes[1] \o HashLines(Tail(hashes))

\* The --hash continuation suffixes of the pair's line.
HashSuffix(dp, with_hashes) ==
    IF dp.files # <<>> /\ with_hashes
    THEN HashLines(sorted(CollectHashes(dp.files)))
    ELSE <<>>

\* The finished line of a pair that is not skipped.
PairLine(dp, with_markers, with_hashes) ==
    BaseLine(dp) \o MarkerSuffix(dp, with_markers) \o HashSuffix(dp, with_hashes)

\* Some file's hash string makes the unpacking raise.
HashesRaise(dp, with_hashes) ==
    /\ dp.files # <<>>
    /\ with_hashes
    /\ \E k \in 1..Len(dp.files) : HashUnpackFails(dp.files[k])

\* Collecting the lines in a list: duplicates kept.
AddLine_append(lines, l) == Append(lines, l)

\* dependency_lines.add(line); the set is kept in iteration order.
AddLine(lines, l) ==
    IF \E k \in 1..Len(lines) : lines[k] = l THEN lines ELSE Append(lines, l)

-----------------------------------------------------------------------------
(* _export_generic_txt, index header                                       *)

\* any(r.name.lower() == "pypi" for r in pool.all_repositories)
has_pypi_repository(all_repositories) ==
    \E k \in 1..Len(all_repositories) :
        Lower(all_repositories[k].name) = <<112, 121, 112, 105>>

\* urllib.parse.urlsplit(url).scheme
UrlScheme(url) ==
    LET k == Find(url, <<58, 47, 47>>)
    IN  IF k = 0 THEN <<>> ELSE Lower(SubSeq(url, 1, k - 1))

\* urllib.parse.urlsplit(url).netloc
UrlNetloc(url) ==
    LET k == Find(url, <<58, 47, 47>>)
        rest == IF k = 0 THEN <<>> ELSE SubSeq(url, k + 3, Len(url))
    IN  Split1(rest, <<47>>)[1]

\* Taking the first repository that gets a directive for the top one.
IsTopPriority_firstListed(all_repositories, k, idx) ==
    \A j \in 1..(k - 1) :
        ~(all_repositories[j].http /\ all_repositories[j].url \in idx)

\* repository is self._poetry.pool.repositories[0]: the pool keeps its
\* repositories by priority, so the first one searched is the first of all.
IsTopPriority(all_repositories, k, idx) == k = 1

\* The lines one repository adds to indexes_header.
RepositoryHeader(all_repositories, k, idx, with_credentials) ==
    LET repository == all_repositories[k]
        url == IF with_credentials THEN repository.authenticated_url
               ELSE repository.url
    IN  IF ~repository.http \/ repository.url \notin idx THEN <<>>
        ELSE (IF UrlScheme(url) = <<104, 116, 116, 112>>
              THEN <<45, 45, 116, 114, 117, 115, 116, 101, 100, 45, 104, 111, 115, 116, 32>> \o UrlNetloc(url) \o <<10>>
              ELSE <<>>)
             \o (IF ~has_pypi_repository(all_repositories)
                    /\ IsTopPriority(all_repositories, k, idx)
                 THEN <<45, 45, 105, 110, 100, 101, 120, 45, 117, 114, 108, 32>> \o url \o <<10>>
                 ELSE <<45, 45, 101, 120, 116, 114, 97, 45, 105, 110, 100, 101, 120, 45, 117, 114, 108, 32>> \o url \o <<10>>)

\* indexes_header: the lines of the repositories from position k on.
RECURSIVE IndexesHeader(_, _, _, _)
IndexesHeader(all_repositories, k, idx, with_credentials) ==
    IF k > Len(all_repositories) THEN <<>>
    ELSE RepositoryHeader(all_repositories, k, idx, with_credentials)
         \o IndexesHeader(all_repositories, k + 1, idx, with_credentials)

\* A header whenever indexes were collected, whatever the URL setting.
HeaderWanted_ignoringUrls(idx, with_urls) == idx # {}

\* if indexes and self._with_urls
HeaderWanted(idx, with_urls) == idx # {} /\ with_urls

\* The content handed to the sink.
FinalContent(lines, idx, all_repositories, with_urls, with_credentials) ==
    LET body == Join(<<10>>, sorted(lines)) \o <<10>>
    IN  IF HeaderWanted(idx, with_urls)
        THEN IndexesHeader(all_repositories, 1, idx, with_credentials)
             \o <<10>> \o body
        ELSE body

-----------------------------------------------------------------------------
(* State                                                                   *)

VARIABLES
    pc,                \* "config", "loop", "done" or "raised"
    fmt,               \* the format export() was called with
    policy,            \* with_extras / allow_editable bound by the format
    _with_hashes, _with_credentials, _with_urls, _with_markers,
    pool,              \* self._poetry.pool.all_repositories
    trace,             \* the pairs yielded so far, each with its outcome
    line,              \* the loop's local `line`
    indexes,           \* the local set `indexes`
    dependency_lines,  \* the local set `dependency_lines`
    warnings,          \* what was written to the error channel
    written,           \* the sink was written to
    content            \* what the sink received

vars ==
    <<pc, fmt, policy, _with_hashes, _with_credentials, _with_urls,
      _with_markers, pool, trace, line, indexes, dependency_lines, warnings,
      written, content>>

flags == <<_with_hashes, _with_credentials, _with_urls, _with_markers>>

locals == <<trace, line, indexes, dependency_lines, warnings>>

sink == <<written, content>>

\* Exporter(poetry, io)
Init ==
    /\ pc = "config"
    /\ fmt = ""
    /\ policy = EXPORT_METHODS[FORMAT_REQUIREMENTS_TXT]
    /\ _with_hashes = TRUE
    /\ _with_credentials = FALSE
    /\ _with_urls = TRUE
    /\ _with_markers = TRUE
    /\ pool \in Pools
    /\ trace = <<>>
    /\ line = <<>>
    /\ indexes = {}
    /\ dependency_lines = <<>>
    /\ warnings = <<>>
    /\ written = FALSE
    /\ content = <<>>

with_urls(b) ==
    /\ pc = "config"
    /\ _with_urls' = b
    /\ UNCHANGED <<pc, fmt, policy, _with_hashes, _with_credentials,
                   _with_markers, pool, locals, sink>>

with_hashes(b) ==
    /\ pc = "config"
    /\ _with_hashes' = b
    /\ UNCHANGED <<pc, fmt, policy, _with_urls, _with_credentials,
                   _with_markers, pool, locals, sink>>

with_markers(b) ==
    /\ pc = "config"
    /\ _with_markers' = b
    /\ UNCHANGED <<pc, fmt, policy, _with_urls, _with_credentials,
                   _with_hashes, pool, locals, sink>>

with_credentials(b) ==
    /\ pc = "config"
    /\ _with_credentials' = b
    /\ UNCHANGED <<pc, fmt, policy, _with_urls, _with_markers,
                   _with_hashes, pool, locals, sink>>

\* A dispatch that falls back to requirements.txt for an unknown name.
export_fallback(f) ==
    /\ pc = "config"
    /\ fmt' = f
    /\ pc' = "loop"
    /\ policy' = IF is_format_supported(f) THEN EXPORT_METHODS[f]
                 ELSE EXPORT_METHODS[FORMAT_REQUIREMENTS_TXT]
    /\ UNCHANGED <<flags, pool, locals, sink>>

\* export(fmt, cwd, output) up to the first pair of the walker: raises for
\* an unsupported format, otherwise enters the generator with the policy
\* flags bound to the format.
export(f) ==
    /\ pc = "config"
    /\ fmt' = f
    /\ IF ~is_format_supported(f)
       THEN /\ pc' = "raised"
            /\ UNCHANGED policy
       ELSE /\ pc' = "loop"
            /\ policy' = EXPORT_METHODS[f]
    /\ UNCHANGED <<flags, pool, locals, sink>>

\* One iteration of the loop over the walker's sequence: the walker yields
\* pair id, which it has not yielded before.
ProcessPair(id) ==
    /\ pc = "loop"
    /\ Len(trace) < MaxWalk
    /\ \A k \in DOMAIN trace : trace[k].pair # id
    /\ LET dp == IF ~policy.with_extras THEN without_features(PairTable[id])
                 ELSE PairTable[id]
       IN  IF SkipEditable(dp, policy.allow_editable)
           THEN /\ warnings' = Append(warnings, dp.name)
                /\ line' = <<>>
                /\ trace' = Append(trace,
                                [pair |-> id, skipped |-> TRUE, line |-> <<>>])
                /\ UNCHANGED <<pc, indexes, dependency_lines>>
           ELSE LET idx == IF RecordsIndex(dp)
                           THEN indexes \cup {IndexUrl(dp)}
                           ELSE indexes
                    fails == HashesRaise(dp, _with_hashes)
                    l == PairLine(dp, _with_markers, _with_hashes)
               IN  /\ indexes' = idx
                   /\ UNCHANGED warnings
                   /\ IF fails
                      THEN /\ pc' = "raised"
                           /\ UNCHANGED <<line, trace, dependency_lines>>
                      ELSE /\ line' = l
                           /\ dependency_lines' = AddLine(dependency_lines, l)
                           /\ trace' = Append(trace,
                                [pair |-> id, skipped |-> FALSE, line |-> l])
                           /\ UNCHANGED pc
    /\ UNCHANGED <<fmt, policy, flags, pool, sink>>

\* The walker is exhausted: sort and join the lines, prepend the index
\* header, write the content to the sink.
Finish ==
    /\ pc = "loop"
    /\ content' = FinalContent(dependency_lines, indexes, pool, _with_urls,
                               _with_credentials)
    /\ written' = TRUE
    /\ pc' = "done"
    /\ UNCHANGED <<fmt, policy, flags, pool, locals>>

Next ==
    \/ \E b \in BOOLEAN : with_urls(b)
    \/ \E b \in BOOLEAN : with_hashes(b)
    \/ \E b \in BOOLEAN : with_markers(b)
    \/ \E b \in BOOLEAN : with_credentials(b)
    \/ \E f \in Formats : export(f)
    \/ \E id \in PairIds : ProcessPair(id)
    \/ Finish

Spec == Init /\ [][Next]_vars

-----------------------------------------------------------------------------
(* Reading the written content back                                        *)

Supported == {"constraints.txt", "requirements.txt"}

Running == pc \in {"loop", "done"}

Processed == {i \in DOMAIN trace : ~trace[i].skipped}

Pair(i) == PairTable[trace[i].pair]

\* s.startswith(p)
StartsWith(s, p) == Len(p) <= Len(s) /\ SubSeq(s, 1, Len(p)) = p

\* s.endswith(p)
EndsWith(s, p) ==
    Len(p) <= Len(s) /\ SubSeq(s, Len(s) - Len(p) + 1, Len(s)) = p

\* The text lines of the content: the pieces that end at each newline.
PhysicalLines(c) ==
    LET ends == {k \in 1..Len(c) : c[k] = <<10>>[1]}
        start(k) == IF \E j \in ends : j < k
                    THEN 1 + CHOOSE j \in ends :
                                 j < k /\ \A i \in ends : i < k => i <= j
                    ELSE 1
        nth[n \in 1..Cardinality(ends)] ==
            CHOOSE k \in ends : Cardinality({j \in ends : j <= k}) = n
    IN  IF Len(c) <= 1 THEN <<>>
        ELSE [n \in 1..Cardinality(ends) |-> SubSeq(c, start(nth[n]), nth[n] - 1)]

\* Text lines joined back into entries: a line ending in a backslash is
\* continued by the next one.
RECURSIVE GroupEntries(_)
GroupEntries(ls) ==
    IF ls = <<>> THEN <<>>
    ELSE LET rest == GroupEntries(Tail(ls))
         IN  IF EndsWith(ls[1], <<92>>) /\ rest # <<>>
             THEN <<ls[1] \o <<10>> \o rest[1]>> \o Tail(rest)
             ELSE <<ls[1]>> \o rest

\* Position of the first empty text line, 0 when there is none.
FirstBlank(ls) ==
    LET blanks == {k \in 1..Len(ls) : ls[k] = <<>>}
    IN  IF blanks = {} THEN 0 ELSE CHOOSE k \in blanks : \A j \in blanks : k <= j

IsDirective(l) ==
    StartsWith(l, <<45, 45, 105, 110, 100, 101, 120, 45, 117, 114, 108, 32>>) \/ StartsWith(l, <<45, 45, 101, 120, 116, 114, 97, 45, 105, 110, 100, 101, 120, 45, 117, 114, 108, 32>>)

IsHeaderLine(l) == IsDirective(l) \/ StartsWith(l, <<45, 45, 116, 114, 117, 115, 116, 101, 100, 45, 104, 111, 115, 116, 32>>)

\* The text lines of the header block: those before the separating blank
\* line, when the content starts with header lines or with a blank line.
HeaderBlock(c) ==
    LET ls == PhysicalLines(c)
        blank == FirstBlank(ls)
    IN  IF ls # <<>> /\ (ls[1] = <<>> \/ IsHeaderLine(ls[1])) /\ blank > 0
        THEN SubSeq(ls, 1, blank - 1)
        ELSE <<>>

\* The requirement entries of the content, in the order written.
Entries(c) ==
    LET ls == PhysicalLines(c)
        blank == FirstBlank(ls)
    IN  IF ls # <<>> /\ (ls[1] = <<>> \/ IsHeaderLine(ls[1])) /\ blank > 0
        THEN GroupEntries(SubSeq(ls, blank + 1, Len(ls)))
        ELSE GroupEntries(ls)

Range(s) == {s[k] : k \in DOMAIN s}

StrictlyAscending(s) == \A k \in 1..(Len(s) - 1) : StrLess(s[k], s[k + 1])

\* The trace entries reordered by ascending pair id: another traversal
\* order of the same collection of pairs.
RECURSIVE InsertEntry(_, _)
InsertEntry(t, e) ==
    IF t = <<>> THEN <<e>>
    ELSE IF e.pair < t[1].pair THEN <<e>> \o t
    ELSE <<t[1]>> \o InsertEntry(Tail(t), e)

RECURSIVE CanonicalOrder(_)
CanonicalOrder(t) ==
    IF t = <<>> THEN <<>>
    ELSE InsertEntry(CanonicalOrder(Tail(t)), t[1])

\* The line set the loop builds when the pairs arrive in the order of t;
\* a pair's line and the index set do not depend on the order.
RECURSIVE LinesOver(_, _)
LinesOver(acc, t) ==
    IF t = <<>> THEN acc
    ELSE LinesOver(IF t[1].skipped THEN acc ELSE AddLine(acc, t[1].line), Tail(t))

\* What export writes when the walker yields the pairs in the order of t.
ContentOver(t) ==
    FinalContent(LinesOver(<<>>, t), indexes, pool, _with_urls, _with_credentials)

-----------------------------------------------------------------------------
(* C1 *)

\* C1: when an export has completed, the requirement entries of the written
\* content are pairwise distinct and in ascending lexicographic order, they
\* are exactly the lines of the processed pairs, and the content is the one
\* the export writes when the walker yields the same pairs in another order.
C1_SortedUniqueOrderIndependent ==
    pc = "done" =>
        LET entries == Entries(content)
        IN  /\ StrictlyAscending(entries)
            /\ Range(entries) = {trace[i].line : i \in Processed}
            /\ content = ContentOver(CanonicalOrder(trace))

\* Three pairs were yielded in descending order of their lines, one of them
\* a duplicate line, and the content was written.
C1_Witness ==
    /\ pc = "done"
    /\ Len(trace) = 3
    /\ Processed = {1, 2, 3}
    /\ StrLess(trace[3].line, trace[1].line)
    /\ trace[1].line = trace[2].line
    /\ trace[1].pair # trace[2].pair
    /\ Len(Entries(content)) = 2

-----------------------------------------------------------------------------
(* C2 *)

\* C2: export with a format other than constraints.txt and requirements.txt
\* (exactly the names is_format_supported rejects) raises before the walker
\* is consulted: no pair is traversed, no warning is emitted, and nothing is
\* written to the sink; a supported format is never rejected.
C2_UnsupportedFormatFailsFirst ==
    /\ \A f \in Formats : is_format_supported(f) <=> f \in Supported
    /\ (pc # "config" /\ fmt \notin Supported) =>
            /\ pc = "raised"
            /\ trace = <<>>
            /\ warnings = <<>>
            /\ indexes = {}
            /\ dependency_lines = <<>>
            /\ ~written
            /\ content = <<>>
    /\ (pc # "config" /\ fmt \in Supported) => pc # "raised"

\* export was called with a name that differs from a supported one by case.
C2_Witness == pc = "raised" /\ fmt = "Requirements.txt"

-----------------------------------------------------------------------------
(* C3 *)

EditableInTrace == {i \in DOMAIN trace : Pair(i).develop}

\* C3: a develop-mode pair contributes its entry in the requirements.txt
\* format; in the constraints.txt format it contributes none and one warning
\* is emitted per such pair, while every other pair of the sequence, before
\* and after it, contributes its entry; the export does not fail and, once
\* the walker is exhausted, writes the entries to the sink.
C3_EditableHandling ==
    (pc # "config" /\ fmt \in Supported) =>
        LET processed == Processed
            lines == {trace[i].line : i \in processed}
            editable == EditableInTrace
        IN  /\ pc # "raised"
            /\ \A i \in DOMAIN trace :
                  /\ ~Pair(i).develop => i \in processed
                  /\ (Pair(i).develop /\ fmt = "requirements.txt") => i \in processed
                  /\ (Pair(i).develop /\ fmt = "constraints.txt") => i \notin processed
                  /\ i \in processed => trace[i].line # <<>>
            /\ Range(dependency_lines) = lines
            /\ fmt = "requirements.txt" => warnings = <<>>
            /\ fmt = "constraints.txt" =>
                  /\ Len(warnings) = Cardinality(editable)
                  /\ \A i \in editable : Pair(i).name \in Range(warnings)
            /\ pc = "done" =>
                  /\ written
                  /\ Range(Entries(content)) = lines

\* A constraints.txt export skipped an editable pair between two others,
\* warned once and wrote the two entries.
C3_Witness ==
    /\ pc = "done"
    /\ fmt = "constraints.txt"
    /\ Len(trace) = 3
    /\ Processed = {1, 3}
    /\ Pair(2).develop
    /\ warnings = <<Pair(2).name>>
    /\ Len(Entries(content)) = 2

-----------------------------------------------------------------------------
(* C4 *)

\* The --hash values of a line, in the order they appear.
HashesOf(l) == Tail(Split(l, <<32, 92, 10, 32, 32, 32, 32, 45, 45, 104, 97, 115, 104, 61>>))

\* What the claim says one hash string is emitted as: a set of at most one.
ClaimedHash(h) ==
    IF ~Contains(h, <<58>>) THEN {<<115, 104, 97, 50, 53, 54, 58>> \o h}
    ELSE IF \/ StartsWith(h, <<115, 104, 97, 50, 53, 54, 58>>)
            \/ StartsWith(h, <<115, 104, 97, 51, 56, 52, 58>>)
            \/ StartsWith(h, <<115, 104, 97, 53, 49, 50, 58>>)
    THEN {h}
    ELSE {}

Count(s, x) == Cardinality({k \in DOMAIN s : s[k] = x})

\* The last iteration of the loop processed its pair: `line` is its line.
JustProcessed == trace # <<>> /\ ~trace[Len(trace)].skipped

\* C4: with hashes enabled, after every iteration that processes a pair the
\* pair's line carries one --hash suffix per file whose hash string has no
\* algorithm prefix (as sha256:<digest>) or an allowed one (unchanged), none
\* for any other algorithm, in ascending order; with hashes disabled the
\* line carries no --hash suffix; no hash string makes the export raise.
C4_HashHandling ==
    /\ (pc # "config" /\ fmt \in Supported) => pc # "raised"
    /\ (Running /\ JustProcessed) =>
              LET hs == HashesOf(line)
                  files == Pair(Len(trace)).files
              IN  IF _with_hashes
                  THEN /\ \A k \in 1..(Len(hs) - 1) : ~StrLess(hs[k + 1], hs[k])
                       /\ \A k \in DOMAIN files :
                              \A e \in ClaimedHash(files[k]) :
                                  Count(hs, e) =
                                      Cardinality({j \in DOMAIN files :
                                                      e \in ClaimedHash(files[j])})
                       /\ \A k \in DOMAIN hs :
                              \E j \in DOMAIN files : hs[k] \in ClaimedHash(files[j])
                  ELSE /\ hs = <<>>
                       /\ ~Contains(line, <<45, 45, 104, 97, 115, 104>>)

\* The pair with a sha512 hash, a bare digest and an md5 hash was processed
\* with hashes enabled: two suffixes, the defaulted sha256 one first.
C4_Witness ==
    /\ Running
    /\ _with_hashes
    /\ JustProcessed
    /\ Pair(Len(trace)).files = <<<<115, 104, 97, 53, 49, 50, 58, 99, 100>>, <<97, 98>>, <<109, 100, 53, 58, 101, 102>>>>
    /\ HashesOf(line) = <<<<115, 104, 97, 50, 53, 54, 58, 97, 98>>, <<115, 104, 97, 53, 49, 50, 58, 99, 100>>>>

-----------------------------------------------------------------------------
(* C5 *)

\* The marker expression of each pair's requirement string: the text after
\* the first ';' without its surrounding blanks, empty when there is none.
MarkerTable ==
    [id \in PairIds |->
        IF Contains(PairTable[id].requirement, <<59>>)
        THEN Strip(Split1(PairTable[id].requirement, <<59>>)[2])
        ELSE <<>>]

MarkerAt(i) == MarkerTable[trace[i].pair]

\* The line up to its --hash suffixes.
BeforeHashes(l) == Split(l, <<32, 92, 10, 32, 32, 32, 32, 45, 45, 104, 97, 115, 104, 61>>)[1]

IsRemote(dp) == dp.kind \in {"vcs", "url"}

-----------------------------------------------------------------------------
(* C6 *)

\* Pool positions whose repository produces a directive, in pool order.
RECURSIVE MatchedFrom(_)
MatchedFrom(k) ==
    IF k > Len(pool) THEN <<>>
    ELSE (IF pool[k].http /\ pool[k].url \in indexes THEN <<k>> ELSE <<>>)
         \o MatchedFrom(k + 1)

NoPypiInPool == \A k \in DOMAIN pool : Lower(pool[k].name) # <<112, 121, 112, 105>>

EmittedUrl(k) ==
    IF _with_credentials THEN pool[k].authenticated_url ELSE pool[k].url

\* C6: the directives of the header are those of the pool's HTTP repositories
\* whose URL was collected, in pool order; a repository gets --index-url
\* exactly when no pool repository is named pypi (in any case) and it is the
\* first of the pool, --extra-index-url otherwise; so at most one --index-url
\* line, and with pool [a, b] and only b's URL collected the header holds
\* --extra-index-url <b's url> and no line for a.
C6_IndexHeader ==
    (pc = "done" /\ indexes # {} /\ _with_urls) =>
        LET header == HeaderBlock(content)
            directives == SelectSeq(header, IsDirective)
            matched == MatchedFrom(1)
        IN  /\ \A k \in DOMAIN header : IsHeaderLine(header[k])
            /\ Len(directives) = Len(matched)
            /\ \A k \in DOMAIN matched :
                  directives[k] =
                      (IF NoPypiInPool /\ matched[k] = 1
                       THEN <<45, 45, 105, 110, 100, 101, 120, 45, 117, 114, 108, 32>> ELSE <<45, 45, 101, 120, 116, 114, 97, 45, 105, 110, 100, 101, 120, 45, 117, 114, 108, 32>>)
                      \o EmittedUrl(matched[k])
            /\ Cardinality({k \in DOMAIN header :
                               StartsWith(header[k], <<45, 45, 105, 110, 100, 101, 120, 45, 117, 114, 108, 32>>)}) <= 1
            /\ (pool = <<RepoA, RepoB>> /\ indexes = {RepoB.url}) =>
                  /\ directives = <<<<45, 45, 101, 120, 116, 114, 97, 45, 105, 110, 100, 101, 120, 45, 117, 114, 108, 32>> \o EmittedUrl(2)>>
                  /\ \A k \in DOMAIN header : ~Contains(header[k], <<97, 46, 105, 111>>)

\* Pool [a, b], neither named pypi, and only b's URL was collected.
C6_Witness ==
    /\ pc = "done"
    /\ _with_urls
    /\ pool = <<RepoA, RepoB>>
    /\ indexes = {RepoB.url}
    /\ HeaderBlock(content) = <<<<45, 45, 101, 120, 116, 114, 97, 45, 105, 110, 100, 101, 120, 45, 117, 114, 108, 32, 104, 116, 116, 112, 115, 58, 47, 47, 98, 46, 105, 111, 47, 115>>>>

-----------------------------------------------------------------------------
(* C7 *)

NoHeader == indexes = {} \/ ~_with_urls

NoHeaderLines ==
    LET ls == PhysicalLines(content)
    IN  \A k \in DOMAIN ls : ~IsHeaderLine(ls[k])

\* C7 as claimed: without collected index URLs, or with URLs disabled, the
\* content starts with the first entry, has no header line and no leading
\* blank line.
C7_Claimed ==
    (pc = "done" /\ NoHeader) =>
        /\ NoHeaderLines
        /\ content[1] # <<10>>[1]

\* C7 (amended): without collected index URLs, or with URLs disabled, the
\* content has no header line; when at least one entry was produced it
\* starts with the first sorted entry and has no leading blank line, and
\* when none was produced it is a single newline.
C7_NoHeaderBlock ==
    (pc = "done" /\ NoHeader) =>
        /\ NoHeaderLines
        /\ HeaderBlock(content) = <<>>
        /\ Processed # {} =>
              /\ content[1] # <<10>>[1]
              /\ \E i \in Processed :
                    /\ StartsWith(content, trace[i].line \o <<10>>)
                    /\ \A j \in Processed : ~StrLess(trace[j].line, trace[i].line)
        /\ Processed = {} => content = <<10>>

\* URLs are disabled, index URLs were collected, and entries were written.
C7_Witness ==
    /\ pc = "done"
    /\ ~_with_urls
    /\ indexes # {}
    /\ Len(Entries(content)) = 2

-----------------------------------------------------------------------------
(* C8 *)

SamePackage(i, j) ==
    /\ Pair(i).kind = "registry" /\ Pair(j).kind = "registry"
    /\ Pair(i).name = Pair(j).name
    /\ Pair(i).version = Pair(j).version

\* C8 as claimed: every registry package contributes at most one entry,
\* also when its edges carry different marker clauses.
C8_Claimed ==
    pc = "done" =>
        \A i, j \in Processed : SamePackage(i, j) => trace[i].line = trace[j].line

\* C8 (amended): the line set merges identical lines only: the edges of a
\* registry package that carry the same marker clause contribute one entry
\* between them, and the content holds each distinct line once; edges with
\* different marker clauses contribute separate entries when markers are
\* enabled.
C8_MergedBySet ==
    pc = "done" =>
        LET processed == Processed
            entries == Entries(content)
        IN  /\ \A i, j \in processed :
                  SamePackage(i, j) =>
                      /\ (MarkerAt(i) = MarkerAt(j) /\ Pair(i).files = Pair(j).files)
                         => trace[i].line = trace[j].line
                      /\ (MarkerAt(i) # MarkerAt(j) /\ _with_markers)
                         => trace[i].line # trace[j].line
            /\ \A i \in processed : Count(entries, trace[i].line) = 1
            /\ Len(entries) = Cardinality({trace[i].line : i \in processed})

\* bar 2.0 was reached over two edges with the same marker clause, written
\* differently, and over one with another marker clause: two entries.
C8_Witness ==
    /\ pc = "done"
    /\ _with_markers
    /\ Processed = {1, 2, 3}
    /\ \A i, j \in Processed : SamePackage(i, j)
    /\ {trace[i].pair : i \in Processed} = {2, 3, 4}
    /\ Len(Entries(content)) = 2

-----------------------------------------------------------------------------
(* C9 *)

\* C9 as claimed: every processed pair that is no direct VCS/URL reference
\* and has a source URL, local references included, records the stripped
\* URL; direct VCS/URL references record nothing.
C9_Claimed ==
    Running =>
        /\ \A i \in Processed :
              (~IsRemote(Pair(i)) /\ Pair(i).source_url # <<>>)
              => RStrip(Pair(i).source_url, <<47>>) \in indexes
        /\ \A u \in indexes :
              \E i \in Processed :
                  ~IsRemote(Pair(i)) /\ RStrip(Pair(i).source_url, <<47>>) = u

\* C9 (amended): the collected index URLs are exactly the source URLs,
\* trailing slashes stripped, of the processed registry-resolved pairs with
\* a non-empty source URL; direct local file/directory references and
\* direct VCS/URL references record nothing.
C9_IndexesCollected ==
    Running =>
        /\ indexes =
              {RStrip(Pair(i).source_url, <<47>>) :
                  i \in {j \in Processed :
                            Pair(j).kind = "registry" /\ Pair(j).source_url # <<>>}}
        /\ \A u \in indexes : ~EndsWith(u, <<47>>)
        /\ \A i \in Processed :
              Pair(i).kind \in {"file", "directory", "vcs", "url"}
              => Pair(i).source_url \notin indexes

\* A registry pair with a trailing-slash source URL, a directory pair with a
\* source URL and a VCS pair with a source URL were processed.
C9_Witness ==
    /\ Running
    /\ indexes = {<<104, 116, 116, 112, 115, 58, 47, 47, 98, 46, 105, 111, 47, 115>>}
    /\ \E i, j, k \in Processed :
          /\ Pair(i).kind = "registry" /\ Pair(i).source_url = <<104, 116, 116, 112, 115, 58, 47, 47, 98, 46, 105, 111, 47, 115, 47>>
          /\ Pair(j).kind = "directory" /\ Pair(j).source_url # <<>>
          /\ Pair(k).kind = "vcs" /\ Pair(k).source_url # <<>>

-----------------------------------------------------------------------------
(* C10 *)

\* C10: whenever index URLs were collected and URLs are enabled, the
\* content starts with a header that holds at least one --index-url or
\* --extra-index-url line before its blank line; it never starts with a
\* bare blank line.
C10_HeaderNeverEmpty ==
    (pc = "done" /\ indexes # {} /\ _with_urls) =>
        /\ content[1] # <<10>>[1]
        /\ LET header == HeaderBlock(content)
           IN  \E k \in DOMAIN header : IsDirective(header[k])

====
